---- MODULE Spec2Model ----
(***************************************************************************)
(* A model of the computational core of ChannelAnalysis:                    *)
(*   CoordAnalysis/Regex_Grouping.py                                        *)
(*     regex_counter, count_totals_to_percents                              *)
(*   ChannelAnalysis/RotamerAnalysis/Histograms.py                          *)
(*     compute_dihedral_timeseries, compute_rotamer_histogram,              *)
(*     compute_rotamer_rotamer_histogram                                    *)
(*                                                                          *)
(* Python dicts are functions whose DOMAIN is the key set.  Python floats   *)
(* are exact rationals <<numerator, denominator>> in lowest terms with a    *)
(* positive denominator.  Python list indices are 0-based; a list is a      *)
(* sequence, so line[c] is line[c + 1] here.                                *)
(***************************************************************************)
EXTENDS Integers, Sequences, FiniteSets, TLC

VARIABLES
    pc,                  \* position in the function being run
    err,                 \* the exception raised, "none" while there is none
    \* regex_counter / count_totals_to_percents
    data_floats,         \* observation rows
    data_regex,          \* list of (state_label, regex_int)
    num_ions_map,        \* regex_counter's argument
    line_no,             \* position of the zip() loop, 1-based
    count_totals,        \* trajectory id -> (state id -> count)
    max_ions,
    num_ions_map_local,  \* count_totals_to_percents's (rebound) parameter
    pending,             \* trajectories iteritems() has not yet yielded
    traj_total_percent,
    traj_occ_averages,
    \* Histograms.py
    data_lines,          \* observation rows
    dihedral_cols,       \* 0-based column numbers
    row_no,              \* position of compute_dihedral_timeseries's loop, 1-based
    dihedral_per_traj,
    time_per_traj,
    chi1_cols,
    chi2_cols,
    histmin,
    histmax,
    histbins,
    prefix,              \* "None" or the output file's prefix
    dihedral_vals,       \* the pooled values
    dihedral_vals_x,
    dihedral_vals_y,
    histo,
    edges,               \* edges, or <<xedges, yedges>>
    out                  \* the lines written to the output file

countVars == <<data_floats, data_regex, num_ions_map, line_no, count_totals,
               max_ions, num_ions_map_local, pending, traj_total_percent,
               traj_occ_averages>>

seriesVars == <<row_no, dihedral_per_traj, time_per_traj>>

histArgs == <<data_lines, dihedral_cols, chi1_cols, chi2_cols, histmin, histmax,
              histbins, prefix>>

histVars == <<histArgs, dihedral_vals, dihedral_vals_x, dihedral_vals_y, histo, edges, out>>

vars == <<pc, err, countVars, seriesVars, histVars>>

----------------------------------------------------------------------------
(* Bounds and input domains *)

MaxRows == 4
MaxSeriesRows == 3
MaxHistRows == 2
MaxFesRows == 2
MaxBins == 2

TrajIds == {1, 2}
StateIds == {-1, 0, 1, 2}
\* The i-th row, of trajectory t: [frame, value, trajectory id]
RowOfTraj(i, t) == <<i - 1, IF i <= 2 THEN 5 ELSE 9, t>>
traj_col == 2
NumIonsMaps == {<<>>, <<10>>, <<10, 20>>, <<10, 20, 30>>, <<10, 20, 30, 40>>}

----------------------------------------------------------------------------
(* Exact arithmetic standing for float arithmetic *)

Abs(x) == IF x < 0 THEN -x ELSE x

Min2(a, b) == IF a <= b THEN a ELSE b

RECURSIVE GCD(_, _)
GCD(a, b) == IF b = 0 THEN a ELSE GCD(b, a % b)

Rat(n, d) ==
    LET g == GCD(Abs(n), Abs(d))
        s == IF d < 0 THEN -1 ELSE 1
    IN <<(s * n) \div g, (s * d) \div g>>

RInt(n) == <<n, 1>>
RAdd(x, y) == Rat(x[1] * y[2] + y[1] * x[2], x[2] * y[2])
RSub(x, y) == Rat(x[1] * y[2] - y[1] * x[2], x[2] * y[2])
RMul(x, y) == Rat(x[1] * y[1], x[2] * y[2])
RDiv(x, y) == Rat(x[1] * y[2], x[2] * y[1])

RECURSIVE RSum(_)
RSum(s) == IF s = <<>> THEN RInt(0) ELSE RAdd(s[1], RSum(Tail(s)))

RECURSIVE SetSum(_, _)
SetSum(f, S) ==
    IF S = {} THEN 0
    ELSE LET k == CHOOSE x \in S : TRUE IN f[k] + SetSum(f, S \ {k})

SetMax(S) == CHOOSE x \in S : \A y \in S : y <= x

\* range(n)
Range(n) == [i \in 1..(IF n > 0 THEN n ELSE 0) |-> i - 1]

\* zip(a, b)
Zip(a, b) == [i \in 1..Min2(Len(a), Len(b)) |-> <<a[i], b[i]>>]

meanUndivided(xs) == RSum(xs)

\* numpy.mean of a non-empty list
mean(xs) == RDiv(RSum(xs), RInt(Len(xs)))

\* scipy.stats.sem(xs) squared: the sample variance (ddof = 1) over n; "nan"
\* for a single sample, where the variance divides by n - 1 = 0.
sem(xs) ==
    IF Len(xs) < 2 THEN "nan"
    ELSE LET m == mean(xs)
             sq == [i \in 1..Len(xs) |-> RMul(RSub(xs[i], m), RSub(xs[i], m))]
         IN RDiv(RDiv(RSum(sq), RInt(Len(xs) - 1)), RInt(Len(xs)))

----------------------------------------------------------------------------
(* regex_counter *)

\* d[k] of a defaultdict(int): the value, 0 for an absent key
DefaultGet(d, k) == IF k \in DOMAIN d THEN d[k] ELSE 0

\* d after d[k] has been evaluated on a defaultdict(int): the key exists
DefaultTouch(d, k) ==
    IF k \in DOMAIN d THEN d ELSE [x \in DOMAIN d \cup {k} |-> IF x = k THEN 0 ELSE d[x]]

IncrementOverwrite(tot, traj_id, regex_state) ==
    LET inner == IF traj_id \in DOMAIN tot THEN tot[traj_id] ELSE <<>>
        inner2 == [x \in DOMAIN inner \cup {regex_state} |->
                      IF x = regex_state THEN 1 ELSE inner[x]]
    IN [t \in DOMAIN tot \cup {traj_id} |-> IF t = traj_id THEN inner2 ELSE tot[t]]

\* count_totals[traj_id][regex_state] += 1 on a defaultdict of defaultdict(int)
Increment(tot, traj_id, regex_state) ==
    LET inner == IF traj_id \in DOMAIN tot THEN tot[traj_id] ELSE <<>>
        inner2 == [x \in DOMAIN inner \cup {regex_state} |->
                      IF x = regex_state THEN DefaultGet(inner, x) + 1 ELSE inner[x]]
    IN [t \in DOMAIN tot \cup {traj_id} |-> IF t = traj_id THEN inner2 ELSE tot[t]]

\* data_regex_ids = [data[1] for data in data_regex]
data_regex_ids == [i \in 1..Len(data_regex) |-> data_regex[i][2]]

\* One iteration of: for line, regex_state in zip(data_floats, data_regex_ids)
CountRow ==
    /\ pc = "count"
    /\ line_no <= Len(Zip(data_floats, data_regex_ids))
    /\ LET line == Zip(data_floats, data_regex_ids)[line_no][1]
           regex_state == Zip(data_floats, data_regex_ids)[line_no][2]
           traj_id == line[traj_col + 1]
       IN count_totals' = Increment(count_totals, traj_id, regex_state)
    /\ line_no' = line_no + 1
    /\ UNCHANGED <<pc, err, data_floats, data_regex, num_ions_map, max_ions,
                   num_ions_map_local, pending, traj_total_percent,
                   traj_occ_averages, seriesVars, histVars>>

----------------------------------------------------------------------------
(* count_totals_to_percents *)

\* [traj for count_dict in count_totals.values() for traj in count_dict]
AllStateKeys(tot) == UNION {DOMAIN tot[t] : t \in DOMAIN tot}

\* if not num_ions_map: num_ions_map = range(max_ions+1)
DefaultedMap(m, mx) == IF m = <<>> THEN Range(mx + 1) ELSE m

MapLengthAtLeast(m, mx) == Len(m) >= mx + 1

\* assert len(num_ions_map) == max_ions+1
MapLengthOk(m, mx) == Len(m) = mx + 1

\* The loop is over, regex_counter calls count_totals_to_percents: the maximum
\* key, the default of the map and the assertion.
CheckMap ==
    /\ pc = "count"
    /\ line_no > Len(Zip(data_floats, data_regex_ids))
    /\ IF AllStateKeys(count_totals) = {}
       THEN \* max() of an empty list
            /\ pc' = "error"
            /\ err' = "ValueError"
            /\ UNCHANGED <<max_ions, num_ions_map_local, pending>>
       ELSE LET mx == SetMax(AllStateKeys(count_totals))
                m == DefaultedMap(num_ions_map, mx)
            IN /\ max_ions' = mx
               /\ num_ions_map_local' = m
               /\ IF MapLengthOk(m, mx)
                  THEN /\ pc' = "percent"
                       /\ err' = err
                       /\ pending' = DOMAIN count_totals
                  ELSE /\ pc' = "error"
                       /\ err' = "AssertionError"
                       /\ pending' = pending
    /\ UNCHANGED <<data_floats, data_regex, num_ions_map, line_no, count_totals,
                   traj_total_percent, traj_occ_averages, seriesVars, histVars>>

\* range(max_ions+1), the state ids a row has a column for
PercentIndices(mx) == Range(mx + 1)

TempLineOverKeys(traj_id, count_dict, mx) ==
    LET total == Cardinality(DOMAIN count_dict)
    IN <<traj_id>> \o [i \in 1..(mx + 1) |->
                          RDiv(RInt(DefaultGet(count_dict, i - 1)), RInt(total))]

\* temp_line after the inner loop: the id, then count/total per index
TempLine(traj_id, count_dict, mx) ==
    LET total == SetSum(count_dict, DOMAIN count_dict)
        idx == PercentIndices(mx)
    IN <<traj_id>> \o [i \in 1..Len(idx) |->
                          RDiv(RInt(DefaultGet(count_dict, idx[i])), RInt(total))]

\* count_dict after count_dict[traj_index] was read for each index
RECURSIVE TouchAll(_, _)
TouchAll(count_dict, idx) ==
    IF idx = <<>> THEN count_dict
    ELSE TouchAll(DefaultTouch(count_dict, Head(idx)), Tail(idx))

\* for occupancy, ion_count in zip(temp_line[1:], num_ions_map):
\*     temp_average += occupancy*ion_count
RECURSIVE Accumulate(_, _)
Accumulate(acc, pairs) ==
    IF pairs = <<>> THEN acc
    ELSE Accumulate(RAdd(acc, RMul(pairs[1][1], RInt(pairs[1][2]))), Tail(pairs))

TempAverageIdentityWeights(temp_line, m) ==
    Accumulate(RInt(0), Zip(Tail(temp_line), Range(Len(temp_line) - 1)))

TempAverage(temp_line, m) == Accumulate(RInt(0), Zip(Tail(temp_line), m))

\* traj_occ_averages[k].append(v) on a defaultdict(list)
ListAppend(d, k, v) ==
    [x \in DOMAIN d \cup {k} |-> IF x = k THEN (IF k \in DOMAIN d THEN Append(d[k], v) ELSE <<v>>)
                                 ELSE d[x]]

RECURSIVE AppendPercents(_, _, _)
AppendPercents(d, idx, percents) ==
    IF idx = <<>> THEN d
    ELSE AppendPercents(ListAppend(d, Head(idx), Head(percents)), Tail(idx), Tail(percents))

\* One iteration of: for traj_id, count_dict in count_totals.iteritems()
\* (a dict's iteration order is arbitrary)
PercentRow ==
    /\ pc = "percent"
    /\ pending # {}
    /\ \E traj_id \in pending :
         LET count_dict == count_totals[traj_id]
             total == SetSum(count_dict, DOMAIN count_dict)
         IN IF total = 0
            THEN \* float division by zero
                 /\ pc' = "error"
                 /\ err' = "ZeroDivisionError"
                 /\ UNCHANGED <<count_totals, pending, traj_total_percent, traj_occ_averages>>
            ELSE LET temp_line == TempLine(traj_id, count_dict, max_ions)
                     temp_average == TempAverage(temp_line, num_ions_map_local)
                     idx == PercentIndices(max_ions)
                 IN /\ count_totals' = [count_totals EXCEPT ![traj_id] = TouchAll(count_dict, idx)]
                    /\ traj_total_percent' = Append(traj_total_percent, temp_line \o <<temp_average>>)
                    /\ traj_occ_averages' =
                           ListAppend(AppendPercents(traj_occ_averages, idx, Tail(temp_line)),
                                      max_ions + 1, temp_average)
                    /\ pending' = pending \ {traj_id}
                    /\ UNCHANGED <<pc, err>>
    /\ UNCHANGED <<data_floats, data_regex, num_ions_map, line_no, max_ions,
                   num_ions_map_local, seriesVars, histVars>>

\* traj_occ_averages[traj_index] read on a defaultdict(list)
AveragesOf(d, k) == IF k \in DOMAIN d THEN d[k] ELSE <<>>

\* The MEAN and STDERR rows and the return
Summarize ==
    /\ pc = "percent"
    /\ pending = {}
    /\ LET idx == Range(max_ions + 2)
           mean_occupancy == [i \in 1..Len(idx) |-> mean(AveragesOf(traj_occ_averages, idx[i]))]
           stderr_occupancy == [i \in 1..Len(idx) |-> sem(AveragesOf(traj_occ_averages, idx[i]))]
       IN traj_total_percent' = traj_total_percent \o <<(<<"MEAN">> \o mean_occupancy),
                                                        (<<"STDERR">> \o stderr_occupancy)>>
    /\ pc' = "done"
    /\ UNCHANGED <<err, data_floats, data_regex, num_ions_map, line_no, count_totals,
                   max_ions, num_ions_map_local, pending, traj_occ_averages,
                   seriesVars, histVars>>

----------------------------------------------------------------------------
(* compute_dihedral_timeseries *)

\* per_traj[traj_id][res_id] = [v]; per_traj is a defaultdict(dict)
SeriesNew(per_traj, traj_id, res_id, v) ==
    LET inner == IF traj_id \in DOMAIN per_traj THEN per_traj[traj_id] ELSE <<>>
        inner2 == [x \in DOMAIN inner \cup {res_id} |-> IF x = res_id THEN <<v>> ELSE inner[x]]
    IN [t \in DOMAIN per_traj \cup {traj_id} |-> IF t = traj_id THEN inner2 ELSE per_traj[t]]

SeriesPrepend(per_traj, traj_id, res_id, v) ==
    [per_traj EXCEPT ![traj_id][res_id] = <<v>> \o @]

\* per_traj[traj_id][res_id].append(v)
SeriesAppend(per_traj, traj_id, res_id, v) ==
    [per_traj EXCEPT ![traj_id][res_id] = Append(@, v)]

\* res_id not in dihedral_per_traj[traj_id]
SeriesIsNew(per_traj, traj_id, res_id) ==
    ~(traj_id \in DOMAIN per_traj /\ res_id \in DOMAIN per_traj[traj_id])

\* for res_id, col in enumerate(dihedral_cols), from res_id on: the pair
\* <<dihedral_per_traj, time_per_traj>> after the loop
RECURSIVE SeriesLine(_, _, _, _, _)
SeriesLine(dihedrals, times, line, cols, res_id) ==
    IF res_id >= Len(cols) THEN <<dihedrals, times>>
    ELSE LET traj_id == line[traj_col + 1]
             col == cols[res_id + 1]
         IN IF SeriesIsNew(dihedrals, traj_id, res_id)
            THEN SeriesLine(SeriesNew(dihedrals, traj_id, res_id, line[col + 1]),
                            SeriesNew(times, traj_id, res_id, line[1]),
                            line, cols, res_id + 1)
            ELSE SeriesLine(SeriesAppend(dihedrals, traj_id, res_id, line[col + 1]),
                            SeriesAppend(times, traj_id, res_id, line[1]),
                            line, cols, res_id + 1)

\* One iteration of: for line in data_lines
SeriesRow ==
    /\ pc = "series"
    /\ row_no <= Len(data_lines)
    /\ LET after == SeriesLine(dihedral_per_traj, time_per_traj,
                               data_lines[row_no], dihedral_cols, 0)
       IN /\ dihedral_per_traj' = after[1]
          /\ time_per_traj' = after[2]
    /\ row_no' = row_no + 1
    /\ UNCHANGED <<pc, err, countVars, histVars>>

\* return (dict(dihedral_per_traj), dict(time_per_traj))
SeriesReturn ==
    /\ pc = "series"
    /\ row_no > Len(data_lines)
    /\ pc' = "done"
    /\ UNCHANGED <<err, countVars, seriesVars, histVars>>

----------------------------------------------------------------------------

\* The (label, state id) lists of length n
RegexLists(n) == [1..n -> {<<"s", s>> : s \in StateIds}]
RowLists(n) == {[i \in 1..n |-> RowOfTraj(i, f[i])] : f \in [1..n -> TrajIds]}

\* regex_counter has not been called
CountIdle ==
    /\ data_floats = <<>>
    /\ data_regex = <<>>
    /\ num_ions_map = <<>>
    /\ line_no = 1
    /\ count_totals = <<>>
    /\ max_ions = 0
    /\ num_ions_map_local = <<>>
    /\ pending = {}
    /\ traj_total_percent = <<>>
    /\ traj_occ_averages = <<>>

SeriesIdle ==
    /\ row_no = 1
    /\ dihedral_per_traj = <<>>
    /\ time_per_traj = <<>>

\* Nothing pooled, binned or written yet
HistIdle ==
    /\ dihedral_vals = <<>>
    /\ dihedral_vals_x = <<>>
    /\ dihedral_vals_y = <<>>
    /\ histo = <<>>
    /\ edges = <<>>
    /\ out = <<>>

\* No histogram is asked for
NoRange ==
    /\ histmin = 0
    /\ histmax = 0
    /\ histbins = 0
    /\ prefix = "None"

\* regex_counter(data_floats, data_regex, traj_col, num_ions_map) is called
Init ==
    /\ pc = "count"
    /\ err = "none"
    /\ \E n \in 0..MaxRows :
          /\ data_floats \in RowLists(n)
          /\ data_regex \in RegexLists(n)
    /\ num_ions_map \in NumIonsMaps
    /\ line_no = 1
    /\ count_totals = <<>>
    /\ max_ions = 0
    /\ num_ions_map_local = <<>>
    /\ pending = {}
    /\ traj_total_percent = <<>>
    /\ traj_occ_averages = <<>>
    /\ SeriesIdle
    /\ data_lines = <<>>
    /\ dihedral_cols = <<>>
    /\ chi1_cols = <<>>
    /\ chi2_cols = <<>>
    /\ NoRange
    /\ HistIdle

Next ==
    \/ CountRow
    \/ CheckMap
    \/ PercentRow
    \/ Summarize

Spec == Init /\ [][Next]_vars

\* Rows [time, value, trajectory id]
SeriesRowSet == {<<time, v, t>> : time \in {0, 1}, v \in {5, 9}, t \in TrajIds}
SeriesCols == {<<>>, <<1>>, <<1, 0>>}

\* compute_dihedral_timeseries(data_lines, dihedral_cols, traj_col) is called
InitSeries ==
    /\ pc = "series"
    /\ err = "none"
    /\ CountIdle
    /\ SeriesIdle
    /\ \E n \in 0..MaxSeriesRows : data_lines \in [1..n -> SeriesRowSet]
    /\ dihedral_cols \in SeriesCols
    /\ chi1_cols = <<>>
    /\ chi2_cols = <<>>
    /\ NoRange
    /\ HistIdle

NextSeries ==
    \/ SeriesRow
    \/ SeriesReturn

SpecSeries == InitSeries /\ [][NextSeries]_vars

----------------------------------------------------------------------------
(* Claims about compute_dihedral_timeseries *)

\* SelectSeq for the rows of trajectory t
RECURSIVE RowsOf(_, _)
RowsOf(rows, t) ==
    IF rows = <<>> THEN <<>>
    ELSE (IF Head(rows)[traj_col + 1] = t THEN <<Head(rows)>> ELSE <<>>) \o RowsOf(Tail(rows), t)

\* C6: for every trajectory t with rows r1..rn in input order and every series
\* index s, series_map[t][s] = [r1[col_s], ..., rn[col_s]] and time_map[t][s] =
\* [r1[0], ..., rn[0]].
C6_SeriesOrder ==
    pc = "done" =>
        \A t \in TrajIds :
            LET r == RowsOf(data_lines, t)
            IN (r # <<>>) =>
                  \A s \in 0..(Len(dihedral_cols) - 1) :
                      /\ t \in DOMAIN dihedral_per_traj
                      /\ s \in DOMAIN dihedral_per_traj[t]
                      /\ dihedral_per_traj[t][s] =
                             [i \in 1..Len(r) |-> r[i][dihedral_cols[s + 1] + 1]]
                      /\ t \in DOMAIN time_per_traj
                      /\ s \in DOMAIN time_per_traj[t]
                      /\ time_per_traj[t][s] = [i \in 1..Len(r) |-> r[i][1]]

\* Rows of two trajectories interleaved, two series
C6_Witness ==
    /\ pc = "done"
    /\ Len(dihedral_cols) = 2
    /\ Len(data_lines) = 3
    /\ data_lines[1][traj_col + 1] = 1
    /\ data_lines[2][traj_col + 1] = 2
    /\ data_lines[3][traj_col + 1] = 1
    /\ dihedral_per_traj[1][0] = <<5, 9>>
    /\ time_per_traj[1][0] = <<1, 0>>

----------------------------------------------------------------------------
(* Claims about regex_counter and count_totals_to_percents *)

\* The rows emitted for trajectories (MEAN and STDERR follow them)
TrajRows ==
    IF pc = "done" THEN SubSeq(traj_total_percent, 1, Len(traj_total_percent) - 2)
    ELSE traj_total_percent

\* The percentages of a trajectory's row: its columns but the first and last
PercentsOf(row) == SubSeq(row, 2, Len(row) - 1)

\* count_totals_to_percents has been entered with a table that has a max-id >= 0
CalledWithMaxId ==
    /\ pc # "count"
    /\ AllStateKeys(count_totals) # {}
    /\ SetMax(AllStateKeys(count_totals)) >= 0

MapLengthDiffers == Len(num_ions_map) # SetMax(AllStateKeys(count_totals)) + 1

Fails == pc = "error" /\ err = "AssertionError" /\ traj_total_percent = <<>>

\* C1 as stated: whenever the weight map's length differs from max-id + 1, the
\* empty map included, the call fails and returns no percent rows.
C1_AnyLengthMismatchFails ==
    (CalledWithMaxId /\ MapLengthDiffers) => Fails

\* C1 amended: whenever a non-empty weight map's length differs from max-id + 1
\* the call fails with the assertion's error and returns no percent rows; an
\* empty map counts as no map: it is replaced by the identity sequence and the
\* assertion passes.
C1_NonEmptyLengthMismatchFails ==
    /\ (CalledWithMaxId /\ MapLengthDiffers /\ num_ions_map # <<>>) => Fails
    /\ (CalledWithMaxId /\ num_ions_map = <<>>) =>
           err # "AssertionError" /\ num_ions_map_local = Range(max_ions + 1)

C1_Witness ==
    /\ CalledWithMaxId /\ MapLengthDiffers /\ Fails
    /\ Len(num_ions_map) > max_ions + 1

\* C2 as stated: for any integer state ids, the percentages of a trajectory's
\* row sum to 1.
C2_PercentsSumToOne ==
    \A i \in 1..Len(TrajRows) : RSum(PercentsOf(TrajRows[i])) = RInt(1)

\* C2 amended: the percentages of a trajectory's row sum to 1 when none of the
\* trajectory's state ids is negative (contiguous or not, starting at 0 or not).
C2_NonNegativePercentsSumToOne ==
    \A i \in 1..Len(TrajRows) :
        (\A s \in DOMAIN count_totals[TrajRows[i][1]] : s >= 0) =>
            RSum(PercentsOf(TrajRows[i])) = RInt(1)

\* A trajectory seen only in states 0 and 2: state 1 is absent
C2_Witness ==
    /\ pc = "done"
    /\ max_ions = 2
    /\ \E i \in 1..Len(TrajRows) :
          /\ \A s \in DOMAIN count_totals[TrajRows[i][1]] : s >= 0
          /\ TrajRows[i][2] # RInt(0)
          /\ TrajRows[i][3] = RInt(0)
          /\ TrajRows[i][4] # RInt(0)

\* The positions of the rows of trajectory t in state s
PositionsOf(t, s) ==
    {i \in 1..Len(data_floats) : data_floats[i][traj_col + 1] = t /\ data_regex[i][2] = s}

TableCount(t, s) ==
    IF t \in DOMAIN count_totals THEN DefaultGet(count_totals[t], s) ELSE 0

\* C3: once the rows are counted, count_table[t][s] is the number of positions
\* i with rows[i][traj_col] = t and pairs[i].state-id = s, the trajectory keys
\* are the trajectory ids of the rows, and the counts sum to the number of rows.
C3_CountTable ==
    pc # "count" =>
        /\ \A t \in TrajIds \cup DOMAIN count_totals :
             \A s \in StateIds \cup (IF t \in DOMAIN count_totals THEN DOMAIN count_totals[t] ELSE {}) :
                TableCount(t, s) = Cardinality(PositionsOf(t, s))
        /\ DOMAIN count_totals = {data_floats[i][traj_col + 1] : i \in 1..Len(data_floats)}
        /\ SetSum([t \in DOMAIN count_totals |->
                      SetSum(count_totals[t], DOMAIN count_totals[t])],
                  DOMAIN count_totals) = Len(data_floats)

C3_Witness ==
    /\ pc # "count"
    /\ Len(data_floats) >= 3
    /\ DOMAIN count_totals = TrajIds
    /\ \E t \in TrajIds : \E s \in StateIds : TableCount(t, s) >= 2

\* The end-to-end example's input
ExampleRows == <<<<0, 5, 1>>, <<1, 5, 1>>, <<2, 9, 1>>, <<3, 9, 2>>>>
ExampleStateIds == <<0, 0, 1, 1>>
IsExample ==
    /\ data_floats = ExampleRows
    /\ data_regex_ids = ExampleStateIds
    /\ num_ions_map = <<10, 20>>

\* The row emitted for trajectory t is <<t>> \o rest
HasRow(t, rest) ==
    \E i \in 1..Len(TrajRows) : TrajRows[i][1] = t /\ Tail(TrajRows[i]) = rest

MeanRow == Tail(traj_total_percent[Len(traj_total_percent) - 1])

\* C4 as stated: the example's table is {1:{0:2,1:0}, 2:{0:0,1:1}}, its rows
\* 1 -> [1.0, 0.0, 10.0] and 2 -> [0.0, 1.0, 20.0], its MEAN row [0.5, 0.5, 15.0].
C4_ExampleAsStated ==
    (IsExample /\ pc = "done") =>
        /\ count_totals = (1 :> (0 :> 2 @@ 1 :> 0) @@ 2 :> (0 :> 0 @@ 1 :> 1))
        /\ HasRow(1, <<RInt(1), RInt(0), RInt(10)>>)
        /\ HasRow(2, <<RInt(0), RInt(1), RInt(20)>>)
        /\ MeanRow = <<Rat(1, 2), Rat(1, 2), RInt(15)>>

\* C4 amended: the example's table is {1:{0:2,1:1}, 2:{1:1}} when the rows are
\* counted, its rows 1 -> [2/3, 1/3, 40/3] and 2 -> [0, 1, 20], and its MEAN
\* row [1/3, 2/3, 50/3].
C4_Example ==
    IsExample =>
        /\ (pc = "percent" /\ pending = TrajIds) =>
               count_totals = (1 :> (0 :> 2 @@ 1 :> 1) @@ 2 :> (1 :> 1))
        /\ pc = "done" =>
               /\ Len(traj_total_percent) = 4
               /\ HasRow(1, <<Rat(2, 3), Rat(1, 3), Rat(40, 3)>>)
               /\ HasRow(2, <<RInt(0), RInt(1), RInt(20)>>)
               /\ MeanRow = <<Rat(1, 3), Rat(2, 3), Rat(50, 3)>>

C4_Witness == IsExample /\ pc = "done"

\* The weight map the claim names: the supplied one, or 0..max-id for none
WeightMap == IF num_ions_map = <<>> THEN [i \in 1..(max_ions + 1) |-> i - 1] ELSE num_ions_map

\* C9: the last column of every trajectory row is the sum over i in 0..max-id
\* of the row's percentage at column i + 1 times weight[i].
C9_WeightedAverage ==
    \A r \in 1..Len(TrajRows) :
        LET row == TrajRows[r]
        IN row[Len(row)] =
               RSum([i \in 1..(max_ions + 1) |-> RMul(row[i + 1], RInt(WeightMap[i]))])

C9_Witness ==
    /\ pc = "done"
    /\ num_ions_map = <<10, 20, 30>>
    /\ \E r \in 1..Len(TrajRows) : TrajRows[r][Len(TrajRows[r])][2] # 1

\* C10: count_totals_to_percents leaves the count table it is given unchanged.
C10_CountTableUnchanged ==
    [][pc = "percent" => count_totals' = count_totals]_vars

----------------------------------------------------------------------------
(* numpy.histogram over a fixed range, as compute_rotamer_histogram calls it *)

\* The range in half units, <<2 * first edge, 2 * last edge>>: numpy widens an
\* empty range mn = mx to [mn - 0.5, mx + 0.5]
HalfRange(mn, mx) == IF mn = mx THEN <<2 * mn - 1, 2 * mx + 1>> ELSE <<2 * mn, 2 * mx>>

\* The i-th of the bins + 1 edges, i from 0: linspace(mn, mx, bins + 1)[i]
Edge(i, mn, mx, bins) ==
    LET r == HalfRange(mn, mx)
    IN Rat(r[1] * bins + i * (r[2] - r[1]), 2 * bins)

Edges(mn, mx, bins) == [i \in 1..(bins + 1) |-> Edge(i - 1, mn, mx, bins)]

InBinHalfOpen(v, i, mn, mx, bins) ==
    LET r == HalfRange(mn, mx)
        left == r[1] * bins + i * (r[2] - r[1])
        right == left + (r[2] - r[1])
    IN left <= 2 * v * bins /\ 2 * v * bins < right

\* Value v falls in bin i, i from 0: edge[i] <= v < edge[i+1], and
\* edge[i] <= v <= edge[i+1] for the last bin
InBin(v, i, mn, mx, bins) ==
    LET r == HalfRange(mn, mx)
        left == r[1] * bins + i * (r[2] - r[1])
        right == left + (r[2] - r[1])
    IN /\ left <= 2 * v * bins
       /\ \/ 2 * v * bins < right
          \/ i = bins - 1 /\ 2 * v * bins = right

\* histogram(vals, range=[mn, mx], bins=bins, normed=False)[0]
Histogram(vals, mn, mx, bins) ==
    [i \in 1..bins |-> Cardinality({k \in 1..Len(vals) : InBin(vals[k], i - 1, mn, mx, bins)})]

\* [line[col] for col in cols]
Columns(line, cols) == [c \in 1..Len(cols) |-> line[cols[c] + 1]]

----------------------------------------------------------------------------
(* compute_rotamer_histogram *)

\* One iteration of: for line in data_lines: dihedral_vals.extend(...)
PoolRow ==
    /\ pc = "pool"
    /\ row_no <= Len(data_lines)
    /\ dihedral_vals' = dihedral_vals \o Columns(data_lines[row_no], dihedral_cols)
    /\ row_no' = row_no + 1
    /\ UNCHANGED <<pc, err, countVars, dihedral_per_traj, time_per_traj, histArgs,
                   dihedral_vals_x, dihedral_vals_y, histo, edges, out>>

\* The histogram, the output file and the return
RotamerHistogram ==
    /\ pc = "pool"
    /\ row_no > Len(data_lines)
    /\ IF histmin > histmax
       THEN \* numpy: max must be larger than min in range parameter
            /\ pc' = "error"
            /\ err' = "ValueError"
            /\ UNCHANGED <<histo, edges, out>>
       ELSE /\ histo' = Histogram(dihedral_vals, histmin, histmax, histbins)
            /\ edges' = Edges(histmin, histmax, histbins)
            /\ out' = IF prefix # "None" THEN Zip(edges', histo') ELSE <<>>
            /\ pc' = "done"
            /\ err' = err
    /\ UNCHANGED <<countVars, seriesVars, histArgs, dihedral_vals, dihedral_vals_x,
                   dihedral_vals_y>>

HistValues == {0, 1, 2, 3}
HistCols == {<<0>>, <<0, 1>>}
HistRanges == {<<0, 2>>, <<1, 3>>, <<1, 1>>, <<2, 1>>}
Prefixes == {"None", "out"}

\* compute_rotamer_histogram(data_lines, dihedral_cols, histmin, histmax,
\* histbins, prefix) is called
InitHist ==
    /\ pc = "pool"
    /\ err = "none"
    /\ CountIdle
    /\ SeriesIdle
    /\ HistIdle
    /\ \E n \in 0..MaxHistRows : data_lines \in [1..n -> HistValues \X HistValues]
    /\ dihedral_cols \in HistCols
    /\ chi1_cols = <<>>
    /\ chi2_cols = <<>>
    /\ \E r \in HistRanges : histmin = r[1] /\ histmax = r[2]
    /\ histbins \in 1..MaxBins
    /\ prefix \in Prefixes

NextHist ==
    \/ PoolRow
    \/ RotamerHistogram

SpecHist == InitHist /\ [][NextHist]_vars

----------------------------------------------------------------------------
(* Claims about compute_rotamer_histogram *)

RECURSIVE SeqSum(_)
SeqSum(q) == IF q = <<>> THEN 0 ELSE Head(q) + SeqSum(Tail(q))

\* The pooled values: of every row, the requested columns
PooledPositions == {<<i, c>> : i \in 1..Len(data_lines), c \in 1..Len(dihedral_cols)}
PooledValue(ic) == data_lines[ic[1]][dihedral_cols[ic[2]] + 1]

\* C5 as stated: the bin counts sum to the number of pooled values v with
\* min <= v < max, so a value equal to max is in no bin.
C5_HalfOpen ==
    (pc = "done" /\ histmin < histmax) =>
        SeqSum(histo) = Cardinality({ic \in PooledPositions :
                                        histmin <= PooledValue(ic) /\ PooledValue(ic) < histmax})

\* C5 amended: over a range min < max the bin counts sum to the number of pooled
\* values v with min <= v <= max; the values equal to max are counted in the
\* last bin; when all values lie inside [min,max) the sum is rows x columns.
C5_ClosedRange ==
    (pc = "done" /\ histmin < histmax) =>
        /\ Len(histo) = histbins
        /\ SeqSum(histo) = Cardinality({ic \in PooledPositions :
                                           histmin <= PooledValue(ic) /\ PooledValue(ic) <= histmax})
        /\ histo[histbins] >= Cardinality({ic \in PooledPositions : PooledValue(ic) = histmax})
        /\ (\A ic \in PooledPositions : histmin <= PooledValue(ic) /\ PooledValue(ic) < histmax) =>
               SeqSum(histo) = Len(data_lines) * Len(dihedral_cols)

\* Values below, inside, at max and above the range
C5_Witness ==
    /\ pc = "done"
    /\ histmin = 1 /\ histmax = 3 /\ histbins = 2
    /\ dihedral_vals = <<0, 3, 2, 3>>
    /\ histo = <<0, 3>>

----------------------------------------------------------------------------
(* compute_rotamer_rotamer_histogram *)

\* Energies are integers in units of 10^-6: kBT = 0.596 in units of 10^-3,
\* logarithms in units of 10^-3, max_eng = 7.0 in units of 10^-6.
kBT == 596
max_eng == 7000000

\* 1000 * ln(p), rounded, of the primes
LnOfPrime == (2 :> 693 @@ 3 :> 1099 @@ 5 :> 1609 @@ 7 :> 1946 @@ 11 :> 2398 @@ 13 :> 2565)

\* numpy.log of a positive integer, as the sum over its prime factors
RECURSIVE LnMilli(_)
LnMilli(n) ==
    IF n = 1 THEN 0
    ELSE LET q == CHOOSE x \in DOMAIN LnOfPrime : n % x = 0
         IN LnOfPrime[q] + LnMilli(n \div q)

\* numpy.log of a positive rational
log(x) == LnMilli(x[1]) - LnMilli(x[2])

Cells(bins) == (1..bins) \X (1..bins)

\* The number of pairs (x[k], y[k]) in bin i of x and bin j of y, i, j from 1
PairCount(xs, ys, i, j, mn, mx, bins) ==
    Cardinality({k \in 1..Len(xs) : /\ InBin(xs[k], i - 1, mn, mx, bins)
                                    /\ InBin(ys[k], j - 1, mn, mx, bins)})

\* The pairs inside the range on both axes
PairsInRange(xs, ys, mn, mx, bins) ==
    Cardinality({k \in 1..Len(xs) : \E c \in Cells(bins) :
                    /\ InBin(xs[k], c[1] - 1, mn, mx, bins)
                    /\ InBin(ys[k], c[2] - 1, mn, mx, bins)})

\* histogram2d(..., normed=True)[0] at cell (i, j): the count over the number
\* of pairs in range and over the cell's area ((mx - mn) / bins)^2
Density(xs, ys, i, j, mn, mx, bins) ==
    LET r == HalfRange(mn, mx)
    IN Rat(PairCount(xs, ys, i, j, mn, mx, bins) * bins * bins * 4,
           PairsInRange(xs, ys, mn, mx, bins) * (r[2] - r[1]) * (r[2] - r[1]))

\* low_val_indices = histo <= 0.0 ; high_val_indices = histo > 0.0
low_val_indices(d) == d[1] <= 0
high_val_indices(d) == d[1] > 0

\* histo[low_val_indices] = max_eng
\* histo[high_val_indices] = -kBT*log(histo[high_val_indices])
Energy(d) ==
    IF low_val_indices(d) THEN max_eng
    ELSE IF high_val_indices(d) THEN -(kBT * log(d))
    ELSE d

\* min(histo[high_val_indices])
MinHigh(dens, eng, bins) ==
    LET S == {eng[c] : c \in {x \in Cells(bins) : high_val_indices(dens[x])}}
    IN CHOOSE m \in S : \A e \in S : m <= e

ShiftEveryCell(e, high, min_val) == e - Abs(min_val)

\* histo[high_val_indices] = histo[high_val_indices] - abs(min_val)
Shift(e, high, min_val) == IF high THEN e - Abs(min_val) ELSE e

\* The surface, a list of rows
Surface(xs, ys, mn, mx, bins) ==
    LET dens == [c \in Cells(bins) |-> Density(xs, ys, c[1], c[2], mn, mx, bins)]
        eng == [c \in Cells(bins) |-> Energy(dens[c])]
        min_val == MinHigh(dens, eng, bins)
    IN [i \in 1..bins |-> [j \in 1..bins |->
           Shift(eng[<<i, j>>], high_val_indices(dens[<<i, j>>]), min_val)]]

\* One iteration of: for line in data_lines
PoolRowXY ==
    /\ pc = "pool2d"
    /\ row_no <= Len(data_lines)
    /\ dihedral_vals_x' = dihedral_vals_x \o Columns(data_lines[row_no], chi1_cols)
    /\ dihedral_vals_y' = dihedral_vals_y \o Columns(data_lines[row_no], chi2_cols)
    /\ row_no' = row_no + 1
    /\ UNCHANGED <<pc, err, countVars, dihedral_per_traj, time_per_traj, histArgs,
                   dihedral_vals, histo, edges, out>>

\* zip(xedges, yedges, histo)
Zip3(a, b, c) ==
    [i \in 1..Min2(Len(a), Min2(Len(b), Len(c))) |-> <<a[i], b[i], c[i]>>]

\* The 2D histogram, the energies, the shift, the output file and the return
RotamerRotamerHistogram ==
    /\ pc = "pool2d"
    /\ row_no > Len(data_lines)
    /\ IF \/ Len(dihedral_vals_x) # Len(dihedral_vals_y)
          \/ histmin > histmax
          \/ PairsInRange(dihedral_vals_x, dihedral_vals_y, histmin, histmax, histbins) = 0
       THEN \* histogram2d refuses x and y of different lengths or a reversed
            \* range; with no pair in range the density is 0/0 = nan in every
            \* cell, a cell of neither mask, and min() of an empty sequence raises
            /\ pc' = "error"
            /\ err' = "ValueError"
            /\ UNCHANGED <<histo, edges, out>>
       ELSE /\ histo' = Surface(dihedral_vals_x, dihedral_vals_y, histmin, histmax, histbins)
            /\ edges' = <<Edges(histmin, histmax, histbins), Edges(histmin, histmax, histbins)>>
            /\ out' = IF prefix # "None" THEN Zip3(edges'[1], edges'[2], histo') ELSE <<>>
            /\ pc' = "done"
            /\ err' = err
    /\ UNCHANGED <<countVars, seriesVars, histArgs, dihedral_vals, dihedral_vals_x,
                   dihedral_vals_y>>

FesValues == {0, 1, 2}
FesCols == {<<(<<0>>), (<<1>>)>>, <<(<<0, 1>>), (<<1, 0>>)>>, <<(<<0>>), (<<0, 1>>)>>}
FesRanges == {<<0, 1>>, <<0, 2>>, <<1, 1>>, <<2, 1>>}

\* compute_rotamer_rotamer_histogram(data_lines, chi1_cols, chi2_cols,
\* histmin, histmax, histbins, prefix) is called with the default kBT, max_eng
InitFes ==
    /\ pc = "pool2d"
    /\ err = "none"
    /\ CountIdle
    /\ SeriesIdle
    /\ HistIdle
    /\ \E n \in 0..MaxFesRows : data_lines \in [1..n -> FesValues \X FesValues]
    /\ dihedral_cols = <<>>
    /\ \E c \in FesCols : chi1_cols = c[1] /\ chi2_cols = c[2]
    /\ \E r \in FesRanges : histmin = r[1] /\ histmax = r[2]
    /\ histbins \in 1..MaxBins
    /\ prefix \in Prefixes

NextFes ==
    \/ PoolRowXY
    \/ RotamerRotamerHistogram

SpecFes == InitFes /\ [][NextFes]_vars

----------------------------------------------------------------------------
(* Claims about compute_rotamer_rotamer_histogram *)

\* The joint probability of cell c is zero: no pair fell in it
ZeroCell(c) ==
    PairCount(dihedral_vals_x, dihedral_vals_y, c[1], c[2], histmin, histmax, histbins) = 0

NonZeroCells == {c \in Cells(histbins) : ~ZeroCell(c)}

\* C7: in the returned surface every zero-probability cell holds max_eng, and
\* every other cell holds a value >= the minimum over those other cells.
C7_Ceiling ==
    pc = "done" =>
        \A c \in Cells(histbins) :
            /\ ZeroCell(c) => histo[c[1]][c[2]] = max_eng
            /\ ~ZeroCell(c) =>
                  \E m \in NonZeroCells :
                      /\ \A n \in NonZeroCells : histo[m[1]][m[2]] <= histo[n[1]][n[2]]
                      /\ histo[m[1]][m[2]] <= histo[c[1]][c[2]]

\* A surface with an empty cell and two occupied cells of different energies
C7_Witness ==
    /\ pc = "done"
    /\ \E c \in Cells(histbins) : ZeroCell(c)
    /\ \E c, d \in NonZeroCells : histo[c[1]][c[2]] < histo[d[1]][d[2]]
    /\ \E c \in NonZeroCells : histo[c[1]][c[2]] # 0

\* C8: after the shift the lowest-energy non-zero-probability cell has value 0.
C8_MinimumIsZero ==
    pc = "done" =>
        \E m \in NonZeroCells :
            /\ \A n \in NonZeroCells : histo[m[1]][m[2]] <= histo[n[1]][n[2]]
            /\ histo[m[1]][m[2]] = 0

====
